---- MODULE Spec2Model ----
(***************************************************************************)
(* Habit tracking service: the statistics engine (app/core/statistics.py), *)
(* the habit service (app/core/services.py) and the stores                 *)
(* (app/db/in_memory.py, and the habit table of app/db/sqlite.py).         *)
(*                                                                         *)
(* Representation.  A calendar date is an integer day number; timedelta    *)
(* (days=1) is 1.  An optional (T | None) is a sequence: <<>> is None and  *)
(* <<v>> carries v.  A float value or goal is an integer count of halves,  *)
(* so 1.0 is 2 and 0.5 is 1.  A float quotient a / b is the pair           *)
(* [num |-> a, den |-> b].  A float has a significand of FloatBits bits    *)
(* where the interpreter's has 53: a sum that fits is exact, as it is in   *)
(* the interpreter, and a larger one is rounded to the nearest float, ties *)
(* to even, so that 2^FloatBits + 1 + 1 is in the model what 2^53 + 1 + 1  *)
(* is in the interpreter.                                                  *)
(***************************************************************************)
EXTENDS Integers, Sequences, FiniteSets, TLC

VARIABLES
    habits,   \* the habit store: habit id -> Habit (_storage, or table habits)
    logs,     \* InMemoryLogRepository._storage: list of LogEntry
    issued,   \* number of habit ids drawn from uuid.uuid4() so far
    today,    \* date.today()
    stack,    \* call stack of the running delete_habit, innermost frame first
    result,   \* outcome of the service call being answered
    arg,      \* arguments of a direct call of calculate
    ret,      \* its StatisticsResult
    backend,  \* the habit repository class the service was built with
    calculators,  \* StatisticsCalculatorFactory._calculators
    reuse     \* history: the worst id the service was handed so far, "none"
              \* while every new habit had a fresh id

vars ==
    <<habits, logs, issued, today, stack, result, arg, ret, backend,
      calculators, reuse>>

----------------------------------------------------------------------------
(* Bounds *)

MaxDate == 2      \* log entries and windows are dated 0..MaxDate
MaxLogs == 2      \* entries in a list given to calculate, or recorded (SpecLogs)
MaxDay == 4       \* completed dates given to calculate_streaks are in 0..MaxDay
MaxHabits == 3    \* habit ids issued
MaxTreeLogs == 1  \* entries recorded (Spec)
MaxOrderLogs == 3 \* entries recorded (SpecOrder)
FloatBits == 3    \* bits of a float's significand, 53 in the interpreter
MaxGiven == 2     \* ids a caller may hand to the service (SpecGiven)
MaxChildren == 1  \* ids in one subhabit_ids list (SpecGiven)

Dates == 0..MaxDate

(* the days a completed-date set is drawn from *)
StreakDays == 0..MaxDay

(* Optionals *)

None == <<>>
Some(v) == <<v>>
Opt(S) == {None} \cup {Some(v) : v \in S}

(* log values in halves: 0.0, 0.5, 1.0 *)
Values == {0, 1, 2}

(* goals in halves: 1.0 *)
Goals == {2}

----------------------------------------------------------------------------
(* app/core/models.py *)

HabitType == {"boolean", "numeric"}

Habit(id, name, description, category, type, goal, parent_id) ==
    [id |-> id, name |-> name, description |-> description,
     category |-> category, type |-> type, goal |-> goal,
     created_at |-> today, parent_id |-> parent_id, subhabit_ids |-> <<>>]

LogEntry(id, habit_id, date_, value) ==
    [id |-> id, habit_id |-> habit_id, date |-> date_, value |-> value]

----------------------------------------------------------------------------
(* app/core/statistics.py *)

(* the smaller of two numbers where the larger is wanted *)
M_Max(a, b) == IF a >= b THEN b ELSE a

Max(a, b) == IF a >= b THEN a ELSE b

FilterFrom(s, start) ==
    SelectSeq(s, LAMBDA log : log.date >= start)

M_FilterUpTo(s, end) ==
    SelectSeq(s, LAMBDA log : log.date < end)

FilterUpTo(s, end) ==
    SelectSeq(s, LAMBDA log : log.date <= end)

(* A date object is always truthy, so `if start:` is `start is not None`. *)
filter_logs_by_date(ls, start, end) ==
    LET f1 == IF start # None THEN FilterFrom(ls, start[1]) ELSE ls
    IN  IF end # None THEN FilterUpTo(f1, end[1]) ELSE f1

(* sorted(completed_dates) *)
RECURSIVE sorted_dates(_)
sorted_dates(S) ==
    IF S = {} THEN <<>>
    ELSE LET m == CHOOSE x \in S : \A y \in S : x <= y
         IN  <<m>> \o sorted_dates(S \ {m})

RECURSIVE M_WalkBack(_, _, _)
M_WalkBack(cursor, completed_dates, current_streak) ==
    IF cursor - 1 \in completed_dates
    THEN M_WalkBack(cursor - 1, completed_dates, current_streak + 1)
    ELSE current_streak

(* while cursor in completed_dates: current_streak += 1; cursor -= 1 day *)
RECURSIVE WalkBack(_, _, _)
WalkBack(cursor, completed_dates, current_streak) ==
    IF cursor \in completed_dates
    THEN WalkBack(cursor - 1, completed_dates, current_streak + 1)
    ELSE current_streak

RECURSIVE M_LongestScan(_, _, _, _)
M_LongestScan(sd, i, current, longest_streak) ==
    IF i > Len(sd) THEN longest_streak
    ELSE LET c == IF i = 1 THEN 1
                  ELSE IF sd[i] - sd[i - 1] = 1 THEN current + 1 ELSE 1
         IN  M_LongestScan(sd, i + 1, c, c)

(* for i in range(len(sorted_dates)): ... *)
RECURSIVE LongestScan(_, _, _, _)
LongestScan(sd, i, current, longest_streak) ==
    IF i > Len(sd) THEN longest_streak
    ELSE LET c == IF i = 1 THEN 1
                  ELSE IF sd[i] - sd[i - 1] = 1 THEN current + 1 ELSE 1
         IN  LongestScan(sd, i + 1, c, Max(longest_streak, c))

M_calculate_streaks(completed_dates, now) ==
    IF completed_dates = {} THEN [current |-> 0, longest |-> 0]
    ELSE LET last == CHOOSE x \in completed_dates :
                         \A y \in completed_dates : y <= x
         IN  [current |-> WalkBack(last, completed_dates, 0),
              longest |-> LongestScan(sorted_dates(completed_dates), 1, 0, 0)]

calculate_streaks(completed_dates, now) ==
    IF completed_dates = {} THEN [current |-> 0, longest |-> 0]
    ELSE [current |-> WalkBack(now, completed_dates, 0),
          longest |-> LongestScan(sorted_dates(completed_dates), 1, 0, 0)]

M_completion_rate(total_completions, total_days) ==
    IF total_days > 0 THEN [num |-> total_days, den |-> total_completions]
    ELSE [num |-> 0, den |-> 1]

(* total_completions / total_days if total_days > 0 else 0.0 *)
completion_rate(total_completions, total_days) ==
    IF total_days > 0 THEN [num |-> total_completions, den |-> total_days]
    ELSE [num |-> 0, den |-> 1]

StatisticsResult(current, longest, completions, rate, average, days) ==
    [current_streak |-> current, longest_streak |-> longest,
     total_completions |-> completions, completion_rate |-> rate,
     average_value |-> average, total_days_tracked |-> days]

(* the 1.0 of `log.value >= 1.0`, in halves *)
BooleanThreshold == 2

M_BooleanCompletes(log) ==
    log.value # None /\ log.value[1] > 0

(* for log in filtered_logs: if <rule>: completed_dates.add(log.date) *)
BooleanCompletes(log) ==
    log.value # None /\ log.value[1] >= BooleanThreshold

BooleanCompletedDates(filtered_logs) ==
    {filtered_logs[i].date :
        i \in {j \in DOMAIN filtered_logs : BooleanCompletes(filtered_logs[j])}}

BooleanCalculate(habit, ls, start, end, now) ==
    LET filtered_logs == filter_logs_by_date(ls, start, end)
        completed_dates == BooleanCompletedDates(filtered_logs)
        streaks == calculate_streaks(completed_dates, now)
        total_completions == Cardinality(completed_dates)
        total_days == Len(filtered_logs)
    IN  StatisticsResult(streaks.current, streaks.longest, total_completions,
                         completion_rate(total_completions, total_days),
                         None, total_days)

M_NumericCompletes(habit, log) ==
    /\ log.value # None
    /\ IF habit.goal # None THEN log.value[1] > habit.goal[1]
       ELSE log.value[1] > 0

NumericCompletes(habit, log) ==
    /\ log.value # None
    /\ IF habit.goal # None THEN log.value[1] >= habit.goal[1]
       ELSE log.value[1] > 0

NumericCompletedDates(habit, filtered_logs) ==
    {filtered_logs[i].date :
        i \in {j \in DOMAIN filtered_logs :
                 NumericCompletes(habit, filtered_logs[j])}}

M_NumericValues(filtered_logs) ==
    LET carrying == SelectSeq(filtered_logs,
                              LAMBDA log : log.value # None /\ log.value[1] # 0)
    IN  [i \in DOMAIN carrying |-> carrying[i].value[1]]

(* values: the non-null values of the filtered entries, in order *)
NumericValues(filtered_logs) ==
    LET carrying == SelectSeq(filtered_logs, LAMBDA log : log.value # None)
    IN  [i \in DOMAIN carrying |-> carrying[i].value[1]]

(* a float rounded to the nearest float, ties to the even significand:
   n is returned as it is when it fits the significand, and as a multiple
   of the unit of its magnitude otherwise *)
RECURSIVE RoundAt(_, _)
RoundAt(n, unit) ==
    IF n < (2 ^ FloatBits) * unit
    THEN LET q == n \div unit
             r == n % unit
             up == 2 * r > unit \/ (2 * r = unit /\ q % 2 = 1)
         IN  (IF up THEN q + 1 ELSE q) * unit
    ELSE RoundAt(n, 2 * unit)

(* float.__add__ on values that are not negative *)
float_add(a, b) == RoundAt(a + b, 1)

(* sum(values): 0 + values[0] + values[1] + ..., added from the left *)
RECURSIVE sum_from(_, _)
sum_from(total, values) ==
    IF values = <<>> THEN total
    ELSE sum_from(float_add(total, Head(values)), Tail(values))

sum(values) == sum_from(0, values)

(* sum(values) / len(values) if values else None *)
average_value(values) ==
    IF values # <<>> THEN Some([num |-> sum(values), den |-> Len(values)])
    ELSE None

NumericCalculate(habit, ls, start, end, now) ==
    LET filtered_logs == filter_logs_by_date(ls, start, end)
        completed_dates == NumericCompletedDates(habit, filtered_logs)
        values == NumericValues(filtered_logs)
        streaks == calculate_streaks(completed_dates, now)
        total_completions == Cardinality(completed_dates)
        total_days == Len(filtered_logs)
    IN  StatisticsResult(streaks.current, streaks.longest, total_completions,
                         completion_rate(total_completions, total_days),
                         average_value(values), total_days)

(* the calculator classes, and a subclass of the boolean one registered
   at run time *)
Calculators ==
    {"BooleanStatisticsCalculator", "NumericStatisticsCalculator",
     "CustomCalculator"}

(* StatisticsCalculatorFactory._calculators as the class is loaded *)
DefaultCalculators ==
    [t \in HabitType |->
        IF t = "boolean" THEN "BooleanStatisticsCalculator"
        ELSE "NumericStatisticsCalculator"]

(* StatisticsCalculatorFactory.get_calculator: ValueError when
   _calculators.get(habit_type) is None *)
get_calculator(registry, habit_type) ==
    IF habit_type \in DOMAIN registry
    THEN [status |-> "ok", value |-> Some(registry[habit_type])]
    ELSE [status |-> "ValueError", value |-> None]

(* StatisticsCalculatorFactory.register_calculator *)
register_calculator(registry, habit_type, calculator) ==
    [t \in DOMAIN registry \cup {habit_type} |->
        IF t = habit_type THEN calculator ELSE registry[t]]

(* get_calculator(habit.type).calculate(habit, logs, start, end);
   CustomCalculator inherits calculate from the boolean calculator *)
calculate(habit, ls, start, end, now) ==
    LET calculator == get_calculator(calculators, habit.type).value[1]
    IN  IF calculator = "NumericStatisticsCalculator"
        THEN NumericCalculate(habit, ls, start, end, now)
        ELSE BooleanCalculate(habit, ls, start, end, now)

----------------------------------------------------------------------------
(* app/db/in_memory.py: the habit repository *)

(* InMemoryHabitRepository.add: self._storage[habit.id] = habit *)
repo_add(storage, habit) ==
    [i \in DOMAIN storage \cup {habit.id} |->
        IF i = habit.id THEN habit ELSE storage[i]]

(* InMemoryHabitRepository.get: self._storage.get(habit_id) *)
repo_get(storage, habit_id) ==
    IF habit_id \in DOMAIN storage THEN Some(storage[habit_id]) ELSE None

(* an update that stores the habit whether or not its id is stored *)
M_repo_update(storage, habit) ==
    [status |-> "ok", storage |-> repo_add(storage, habit)]

(* InMemoryHabitRepository.update: KeyError when the id is not stored *)
repo_update(storage, habit) ==
    IF habit.id \notin DOMAIN storage
    THEN [status |-> "KeyError", storage |-> storage]
    ELSE [status |-> "ok", storage |-> repo_add(storage, habit)]

(* InMemoryHabitRepository.delete: self._storage.pop(habit_id, None) *)
repo_delete(storage, habit_id) ==
    [i \in DOMAIN storage \ {habit_id} |-> storage[i]]

----------------------------------------------------------------------------
(* app/db/sqlite.py: the table habits as a map from the primary key to
   the row, a row holding the fields of the Habit it was written from *)

(* SQLiteHabitRepository.add: INSERT fails on a primary key in use *)
sqlite_add(storage, habit) ==
    IF habit.id \in DOMAIN storage
    THEN [status |-> "IntegrityError", storage |-> storage]
    ELSE [status |-> "ok", storage |-> repo_add(storage, habit)]

(* SQLiteHabitRepository.update: UPDATE of name, description, category,
   goal and subhabit_ids; KeyError when rowcount is 0 *)
sqlite_update(storage, habit) ==
    IF habit.id \notin DOMAIN storage
    THEN [status |-> "KeyError", storage |-> storage]
    ELSE [status |-> "ok",
          storage |-> [storage EXCEPT ![habit.id] =
              [@ EXCEPT !.name = habit.name,
                        !.description = habit.description,
                        !.category = habit.category,
                        !.goal = habit.goal,
                        !.subhabit_ids = habit.subhabit_ids]]]

(* SQLiteHabitRepository.delete: DELETE FROM habits WHERE id = ? *)
sqlite_delete(storage, habit_id) ==
    [i \in DOMAIN storage \ {habit_id} |-> storage[i]]

----------------------------------------------------------------------------
(* app/db/repository.py: the HabitRepository the application was built
   with *)

Backends == {"in_memory", "sqlite"}

store_add(storage, habit) ==
    IF backend = "sqlite" THEN sqlite_add(storage, habit)
    ELSE [status |-> "ok", storage |-> repo_add(storage, habit)]

store_update(storage, habit) ==
    IF backend = "sqlite" THEN sqlite_update(storage, habit)
    ELSE repo_update(storage, habit)

store_delete(storage, habit_id) ==
    IF backend = "sqlite" THEN sqlite_delete(storage, habit_id)
    ELSE repo_delete(storage, habit_id)

----------------------------------------------------------------------------
(* app/db/in_memory.py: the log repository *)

(* a list_for_habit that returns the entries in the order of recording *)
M_SortByDate(ls) == ls

(* sorted(logs, key=lambda log: log.date): a stable sort *)
RECURSIVE InsertByDate(_, _)
InsertByDate(sorted, log) ==
    IF sorted = <<>> THEN <<log>>
    ELSE IF sorted[Len(sorted)].date <= log.date THEN Append(sorted, log)
    ELSE Append(InsertByDate(SubSeq(sorted, 1, Len(sorted) - 1), log),
                sorted[Len(sorted)])

RECURSIVE SortByDate(_)
SortByDate(ls) ==
    IF ls = <<>> THEN <<>>
    ELSE InsertByDate(SortByDate(SubSeq(ls, 1, Len(ls) - 1)), ls[Len(ls)])

ForHabit(storage, habit_id) ==
    SelectSeq(storage, LAMBDA log : log.habit_id = habit_id)

(* a list_for_habit whose window leaves out the entries dated end *)
M_list_for_habit(storage, habit_id, start, end) ==
    LET own == ForHabit(storage, habit_id)
        f1 == IF start # None THEN FilterFrom(own, start[1]) ELSE own
        f2 == IF end # None THEN M_FilterUpTo(f1, end[1]) ELSE f1
    IN  SortByDate(f2)

(* InMemoryLogRepository.list_for_habit *)
list_for_habit(storage, habit_id, start, end) ==
    LET own == ForHabit(storage, habit_id)
        f1 == IF start # None THEN FilterFrom(own, start[1]) ELSE own
        f2 == IF end # None THEN FilterUpTo(f1, end[1]) ELSE f1
    IN  SortByDate(f2)

----------------------------------------------------------------------------
(* app/core/services.py, called as app/api/controllers.py calls it *)

(* an id that uuid.uuid4() never returns *)
UnknownId == 0

(* the ids a request can name: one that was never issued, and the issued *)
RequestIds == {UnknownId} \cup (1..issued)

(* the exception the service raises for an id that is not stored, which
   the handlers answer with 404 *)
NotFoundError == "ValueError"

(* the outcome of a service call: "ok", or the exception it raised *)
Outcome(op, id, status, value) ==
    [op |-> op, id |-> id, status |-> status, value |-> value]

NoCall == [op |-> "none"]

(* no request is being served *)
Idle == stack = <<>> /\ result = NoCall

(* delete_habit is running *)
Running == stack # <<>>

(* the controller returns the response, or the HTTPException, of the call *)
Respond ==
    /\ stack = <<>>
    /\ result # NoCall
    /\ result' = NoCall
    /\ UNCHANGED <<habits, logs, issued, today, stack, arg, ret, backend,
                   calculators, reuse>>

(* HabitCreate: name, type and goal of the new habit, and its parent_id *)
HabitCreate(type, goal, parent_id) ==
    [name |-> "a", description |-> None, category |-> None,
     type |-> type, goal |-> goal, parent_id |-> parent_id]

(* controllers.create_habit: Habit(id=str(uuid.uuid4()), ...) *)
NewHabit(id, payload, parent_id) ==
    Habit(id, payload.name, payload.description, payload.category,
          payload.type, payload.goal, parent_id)

(* HabitService.create_habit *)
CreateHabit(payload) ==
    /\ Idle
    /\ issued < MaxHabits
    /\ LET habit == NewHabit(issued + 1, payload, payload.parent_id)
       IN  /\ habits' = repo_add(habits, habit)
           /\ result' = Outcome("create_habit", habit.id, "ok", None)
    /\ issued' = issued + 1
    /\ UNCHANGED <<logs, today, stack, arg, ret, backend, calculators, reuse>>

(* the outcome of update_habit, with the HabitUpdate it was called with *)
Updated(habit_id, update, status, value) ==
    [op |-> "update_habit", id |-> habit_id, update |-> update,
     status |-> status, value |-> value]

(* update_habit assigning the description whether or not it is supplied *)
M_ApplyUpdate(habit, update) ==
    [habit EXCEPT
        !.name = IF update.name # None THEN update.name[1] ELSE @,
        !.description = update.description,
        !.category = IF update.category # None THEN update.category ELSE @,
        !.goal = IF update.goal # None THEN update.goal ELSE @]

(* HabitUpdate: the fields that are not None replace the habit's *)
ApplyUpdate(habit, update) ==
    [habit EXCEPT
        !.name = IF update.name # None THEN update.name[1] ELSE @,
        !.description =
            IF update.description # None THEN update.description ELSE @,
        !.category = IF update.category # None THEN update.category ELSE @,
        !.goal = IF update.goal # None THEN update.goal ELSE @]

(* HabitService.update_habit *)
UpdateHabit(habit_id, update) ==
    /\ Idle
    /\ LET found == repo_get(habits, habit_id)
       IN  IF found = None
           THEN /\ result' = Updated(habit_id, update, "ValueError", None)
                /\ UNCHANGED habits
           ELSE LET habit == ApplyUpdate(found[1], update)
                    updated == repo_update(habits, habit)
                IN  /\ habits' = updated.storage
                    /\ result' = Updated(habit_id, update, updated.status,
                                         Some(habit))
    /\ UNCHANGED <<logs, issued, today, stack, arg, ret, backend,
                   calculators, reuse>>

(* add_subhabit putting the new id at the head of the parent's list *)
M_AddSubhabit(parent_id, payload) ==
    /\ Idle
    /\ LET found == repo_get(habits, parent_id)
       IN  IF found = None
           THEN /\ result' = Outcome("add_subhabit", parent_id, "ValueError", None)
                /\ UNCHANGED <<habits, issued>>
           ELSE /\ issued < MaxHabits
                /\ LET subhabit == NewHabit(issued + 1, payload, Some(parent_id))
                       parent == [found[1] EXCEPT
                                     !.subhabit_ids = <<subhabit.id>> \o @]
                       appended == [habits EXCEPT ![parent_id] = parent]
                       updated == repo_update(repo_add(appended, subhabit), parent)
                   IN  /\ habits' = updated.storage
                       /\ result' = Outcome("add_subhabit", parent_id,
                                            updated.status, Some(subhabit.id))
                /\ issued' = issued + 1
    /\ UNCHANGED <<logs, today, stack, arg, ret, backend, calculators, reuse>>

(* HabitService.add_subhabit *)
AddSubhabit(parent_id, payload) ==
    /\ Idle
    /\ LET found == repo_get(habits, parent_id)
       IN  IF found = None
           THEN /\ result' = Outcome("add_subhabit", parent_id, "ValueError", None)
                /\ UNCHANGED <<habits, issued>>
           ELSE /\ issued < MaxHabits
                /\ LET subhabit == NewHabit(issued + 1, payload, Some(parent_id))
                       parent == [found[1] EXCEPT
                                     !.subhabit_ids = Append(@, subhabit.id)]
                       appended == [habits EXCEPT ![parent_id] = parent]
                       updated == repo_update(repo_add(appended, subhabit), parent)
                   IN  /\ habits' = updated.storage
                       /\ result' = Outcome("add_subhabit", parent_id,
                                            updated.status, Some(subhabit.id))
                /\ issued' = issued + 1
    /\ UNCHANGED <<logs, today, stack, arg, ret, backend, calculators, reuse>>

M_RecordLog(habit_id, date_, value) ==
    /\ Idle
    /\ LET log == LogEntry(Len(logs) + 1, habit_id, date_, value)
       IN  /\ logs' = Append(logs, log)
           /\ result' = Outcome("record_log", habit_id,
                     IF repo_get(habits, habit_id) = None
                     THEN "ValueError" ELSE "ok", Some(log))
    /\ UNCHANGED <<habits, issued, today, stack, arg, ret, backend,
                   calculators, reuse>>

(* HabitService.record_log *)
RecordLog(habit_id, date_, value) ==
    /\ Idle
    /\ IF repo_get(habits, habit_id) = None
       THEN /\ result' = Outcome("record_log", habit_id, "ValueError", None)
            /\ UNCHANGED logs
       ELSE LET log == LogEntry(Len(logs) + 1, habit_id, date_, value)
            IN  /\ logs' = Append(logs, log)
                /\ result' = Outcome("record_log", habit_id, "ok", Some(log))
    /\ UNCHANGED <<habits, issued, today, stack, arg, ret, backend,
                   calculators, reuse>>

Window(op, habit_id, start, end, status, value) ==
    [op |-> op, id |-> habit_id, start |-> start, end |-> end,
     status |-> status, value |-> value]

(* HabitService.get_logs *)
GetLogs(habit_id, start, end) ==
    /\ Idle
    /\ result' =
          IF repo_get(habits, habit_id) = None
          THEN Window("get_logs", habit_id, start, end, "ValueError", None)
          ELSE Window("get_logs", habit_id, start, end, "ok",
                      Some(list_for_habit(logs, habit_id, start, end)))
    /\ UNCHANGED <<habits, logs, issued, today, stack, arg, ret, backend,
                   calculators, reuse>>

(* HabitService.get_statistics *)
get_statistics(habit, start, end) ==
    calculate(habit, list_for_habit(logs, habit.id, start, end),
              start, end, today)

(* a get_statistics that sorts the log store in place before reading it *)
M_GetStatistics(habit_id, start, end) ==
    /\ Idle
    /\ LET found == repo_get(habits, habit_id)
       IN  result' =
             IF found = None
             THEN Window("get_statistics", habit_id, start, end,
                         "ValueError", None)
             ELSE Window("get_statistics", habit_id, start, end, "ok",
                         Some(get_statistics(found[1], start, end)))
    /\ logs' = SortByDate(logs)
    /\ UNCHANGED <<habits, issued, today, stack, arg, ret, backend,
                   calculators, reuse>>

GetStatistics(habit_id, start, end) ==
    /\ Idle
    /\ LET found == repo_get(habits, habit_id)
       IN  result' =
             IF found = None
             THEN Window("get_statistics", habit_id, start, end,
                         "ValueError", None)
             ELSE Window("get_statistics", habit_id, start, end, "ok",
                         Some(get_statistics(found[1], start, end)))
    /\ UNCHANGED <<habits, logs, issued, today, stack, arg, ret, backend,
                   calculators, reuse>>

(* HabitService.delete_habit: one frame per running call, innermost first;
   a frame holds the habit read by habit_repo.get and the position of the
   loop over its subhabit_ids *)
Frame(habit) == [habit |-> habit, i |-> 1]

Deleting(habit_id, status) ==
    [op |-> "delete_habit", id |-> habit_id, status |-> status,
     value |-> None, before |-> habits]

(* the call from the controller *)
DeleteHabit(habit_id) ==
    /\ Idle
    /\ LET found == repo_get(habits, habit_id)
       IN  IF found = None
           THEN /\ result' = Deleting(habit_id, "ValueError")
                /\ UNCHANGED stack
           ELSE /\ result' = Deleting(habit_id, "running")
                /\ stack' = <<Frame(found[1])>>
    /\ UNCHANGED <<habits, logs, issued, today, arg, ret, backend,
                   calculators, reuse>>

M_DeleteSubhabit ==
    /\ Running
    /\ Head(stack).i <= Len(Head(stack).habit.subhabit_ids)
    /\ stack' = <<[Head(stack) EXCEPT !.i = @ + 1]>> \o Tail(stack)
    /\ UNCHANGED <<habits, logs, issued, today, result, arg, ret, backend,
                   calculators, reuse>>

(* a delete_habit that walks subhabit_ids from the last id to the first *)
M_DeleteSubhabitReversed ==
    /\ Running
    /\ LET top == Head(stack)
           n == Len(top.habit.subhabit_ids)
       IN  /\ top.i <= n
           /\ LET found == repo_get(habits, top.habit.subhabit_ids[n - top.i + 1])
              IN  IF found = None
                  THEN /\ result' = [result EXCEPT !.status = "ValueError"]
                       /\ stack' = <<>>
                  ELSE /\ stack' = <<Frame(found[1]),
                                     [top EXCEPT !.i = @ + 1]>> \o Tail(stack)
                       /\ UNCHANGED result
    /\ UNCHANGED <<habits, logs, issued, today, arg, ret, backend,
                   calculators, reuse>>

(* for subhabit_id in habit.subhabit_ids: self.delete_habit(subhabit_id) *)
DeleteSubhabit ==
    /\ Running
    /\ LET top == Head(stack)
       IN  /\ top.i <= Len(top.habit.subhabit_ids)
           /\ LET found == repo_get(habits, top.habit.subhabit_ids[top.i])
              IN  IF found = None
                  THEN /\ result' = [result EXCEPT !.status = "ValueError"]
                       /\ stack' = <<>>
                  ELSE /\ stack' = <<Frame(found[1]),
                                     [top EXCEPT !.i = @ + 1]>> \o Tail(stack)
                       /\ UNCHANGED result
    /\ UNCHANGED <<habits, logs, issued, today, arg, ret, backend,
                   calculators, reuse>>

(* self.habit_repo.delete(habit_id), and the return *)
DeleteSelf ==
    /\ Running
    /\ LET top == Head(stack)
       IN  /\ top.i > Len(top.habit.subhabit_ids)
           /\ habits' = repo_delete(habits, top.habit.id)
           /\ stack' = Tail(stack)
           /\ result' = IF Tail(stack) = <<>>
                        THEN [result EXCEPT !.status = "ok"]
                        ELSE result
    /\ UNCHANGED <<logs, issued, today, arg, ret, backend, calculators, reuse>>

Init ==
    /\ habits = <<>>
    /\ logs = <<>>
    /\ issued = 0
    /\ today = MaxDate
    /\ stack = <<>>
    /\ result = NoCall
    /\ backend = "in_memory"
    /\ calculators = DefaultCalculators
    /\ reuse = "none"
    /\ arg = NoCall
    /\ ret = None

(* Requests on a tree of habits: every habit is a boolean habit named "a",
   renamed "b" by an update and logged as done today; reads ask for the
   whole history. *)
Rename ==
    [name |-> Some("b"), description |-> None, category |-> None,
     goal |-> None]

CanLog(h, limit) == h \in DOMAIN habits => Len(logs) < limit

Next ==
    \/ CreateHabit(HabitCreate("boolean", None, None))
    \/ \E h \in RequestIds : UpdateHabit(h, Rename)
    \/ \E h \in RequestIds : AddSubhabit(h, HabitCreate("boolean", None, None))
    \/ \E h \in RequestIds :
          CanLog(h, MaxTreeLogs) /\ RecordLog(h, today, Some(BooleanThreshold))
    \/ \E h \in RequestIds : GetLogs(h, None, None)
    \/ \E h \in RequestIds : GetStatistics(h, None, None)
    \/ \E h \in RequestIds : DeleteHabit(h)
    \/ DeleteSubhabit
    \/ DeleteSelf
    \/ Respond

Spec == Init /\ [][Next]_vars

(* Requests on the logs of two habits, one boolean and one numeric with a
   goal of 1.0, created in either order: entries of 0.5 and 1.0 on any day
   up to today, statistics over any window. *)
StatPayloads ==
    {HabitCreate("boolean", None, None)}
        \cup {HabitCreate("numeric", Some(g), None) : g \in Goals}

StatValues == {Some(1), Some(BooleanThreshold)}

NotYetCreated(payload) ==
    \A i \in DOMAIN habits :
        habits[i].type # payload.type \/ habits[i].goal # payload.goal

NextLogs ==
    \/ \E p \in StatPayloads : NotYetCreated(p) /\ CreateHabit(p)
    \/ \E h \in RequestIds, d \in Dates, v \in StatValues :
          CanLog(h, MaxLogs) /\ RecordLog(h, d, v)
    \/ \E h \in RequestIds, start \in Opt(Dates), end \in Opt(Dates) :
          GetLogs(h, start, end)
    \/ \E h \in RequestIds, start \in Opt(Dates), end \in Opt(Dates) :
          GetStatistics(h, start, end)
    \/ Respond

SpecLogs == Init /\ [][NextLogs]_vars

(* Requests that update the two habits of StatPayloads, one of them
   possibly a sub-habit of the other and one of them logged today: every
   combination of supplied and omitted fields of HabitUpdate. *)
Updates ==
    [name : Opt({"b"}), description : Opt({"d"}), category : Opt({"c"}),
     goal : Opt({1})]

(* no stored habit has the payload's type, which no update changes *)
NoneOfType(payload) == \A i \in DOMAIN habits : habits[i].type # payload.type

NextUpdate ==
    \/ \E p \in StatPayloads : NoneOfType(p) /\ CreateHabit(p)
    \/ \E h \in RequestIds, p \in StatPayloads :
          NoneOfType(p) /\ AddSubhabit(h, p)
    \/ \E h \in RequestIds, u \in Updates : UpdateHabit(h, u)
    \/ \E h \in RequestIds :
          CanLog(h, MaxTreeLogs) /\ RecordLog(h, today, Some(BooleanThreshold))
    \/ Respond

SpecUpdate == Init /\ [][NextUpdate]_vars

(* Requests of the API on habits only: POST /habits carries an optional
   parent_id, which is any id a client can name. *)
NextApi ==
    \/ \E p \in Opt(RequestIds) : CreateHabit(HabitCreate("boolean", None, p))
    \/ \E h \in RequestIds : AddSubhabit(h, HabitCreate("boolean", None, None))
    \/ \E h \in RequestIds : UpdateHabit(h, Rename)
    \/ \E h \in RequestIds : DeleteHabit(h)
    \/ DeleteSubhabit
    \/ DeleteSelf
    \/ Respond

SpecApi == Init /\ [][NextApi]_vars

(* Requests on the logs of one numeric habit with a goal of 1.0: entries
   of 0.5 and of the least float whose successor is two away, on any day
   up to today, statistics over the windows that open or close on day 1. *)
BigValue == 2 ^ FloatBits

OrderValues == {Some(1), Some(BigValue)}

OrderBounds == Opt({1})

NextOrder ==
    \/ \E g \in Goals :
          /\ habits = <<>>
          /\ CreateHabit(HabitCreate("numeric", Some(g), None))
    \/ \E h \in RequestIds, d \in Dates, v \in OrderValues :
          CanLog(h, MaxOrderLogs) /\ RecordLog(h, d, v)
    \/ \E h \in RequestIds, start \in OrderBounds, end \in OrderBounds :
          GetStatistics(h, start, end)
    \/ Respond

SpecOrder == Init /\ [][NextOrder]_vars

----------------------------------------------------------------------------
(* update_habit and add_subhabit store call by store call, with another
   request's delete_habit running between two of the calls.  The in-memory
   repository hands out the stored object itself, so what the service
   assigns to the habit it read is in the store at once; the SQLite
   repository hands out a copy. *)

InFlight == {"running", "added"}

(* the store after the service has changed the habit it read *)
Aliased(storage, habit) ==
    IF backend = "in_memory" THEN [storage EXCEPT ![habit.id] = habit]
    ELSE storage

(* update_habit: habit_repo.get and the assignments to the habit *)
UpdateRead(habit_id, update) ==
    /\ Idle
    /\ LET found == repo_get(habits, habit_id)
       IN  IF found = None
           THEN /\ result' = Updated(habit_id, update, NotFoundError, None)
                /\ UNCHANGED habits
           ELSE LET habit == ApplyUpdate(found[1], update)
                IN  /\ habits' = Aliased(habits, habit)
                    /\ result' = Updated(habit_id, update, "running",
                                         Some(habit))
    /\ UNCHANGED <<logs, issued, today, stack, arg, ret, backend,
                   calculators, reuse>>

(* update_habit: habit_repo.update(habit) and the return *)
UpdateWrite ==
    /\ result.op = "update_habit"
    /\ result.status = "running"
    /\ LET updated == store_update(habits, result.value[1])
       IN  /\ habits' = updated.storage
           /\ result' = [result EXCEPT !.status = updated.status]
    /\ UNCHANGED <<logs, issued, today, stack, arg, ret, backend,
                   calculators, reuse>>

(* the outcome of add_subhabit, with the parent it read and the sub-habit *)
Adding(parent_id, status, parent, subhabit) ==
    [op |-> "add_subhabit", id |-> parent_id, status |-> status,
     value |-> Some(subhabit.id), parent |-> parent, subhabit |-> subhabit]

(* add_subhabit: habit_repo.get(parent_id), subhabit.parent_id = parent_id
   and parent.subhabit_ids.append(subhabit.id) *)
AddSubhabitRead(parent_id, payload) ==
    /\ Idle
    /\ LET found == repo_get(habits, parent_id)
       IN  IF found = None
           THEN /\ result' = Outcome("add_subhabit", parent_id, NotFoundError,
                                     None)
                /\ UNCHANGED <<habits, issued>>
           ELSE /\ issued < MaxHabits
                /\ LET subhabit == NewHabit(issued + 1, payload, Some(parent_id))
                       parent == [found[1] EXCEPT
                                     !.subhabit_ids = Append(@, subhabit.id)]
                   IN  /\ habits' = Aliased(habits, parent)
                       /\ result' = Adding(parent_id, "running", parent,
                                           subhabit)
                /\ issued' = issued + 1
    /\ UNCHANGED <<logs, today, stack, arg, ret, backend, calculators, reuse>>

(* add_subhabit: habit_repo.add(subhabit) *)
AddSubhabitAdd ==
    /\ result.op = "add_subhabit"
    /\ result.status = "running"
    /\ LET added == store_add(habits, result.subhabit)
       IN  /\ habits' = added.storage
           /\ result' = [result EXCEPT !.status =
                  IF added.status = "ok" THEN "added" ELSE added.status]
    /\ UNCHANGED <<logs, issued, today, stack, arg, ret, backend,
                   calculators, reuse>>

(* add_subhabit: habit_repo.update(parent) and the return *)
AddSubhabitUpdate ==
    /\ result.op = "add_subhabit"
    /\ result.status = "added"
    /\ LET updated == store_update(habits, result.parent)
       IN  /\ habits' = updated.storage
           /\ result' = [result EXCEPT !.status = updated.status]
    /\ UNCHANGED <<logs, issued, today, stack, arg, ret, backend,
                   calculators, reuse>>

(* another request's delete_habit of a stored habit that lists no
   sub-habits, run while update_habit or add_subhabit is between two store
   calls: habit_repo.get, an empty loop, habit_repo.delete *)
RaceDelete(habit_id) ==
    /\ result.op \in {"update_habit", "add_subhabit"}
    /\ result.status \in InFlight
    /\ habit_id \in DOMAIN habits
    /\ habits[habit_id].subhabit_ids = <<>>
    /\ habits' = store_delete(habits, habit_id)
    /\ UNCHANGED <<logs, issued, today, stack, result, arg, ret, backend,
                   calculators, reuse>>

InitRace ==
    /\ habits = <<>>
    /\ logs = <<>>
    /\ issued = 0
    /\ today = MaxDate
    /\ stack = <<>>
    /\ result = NoCall
    /\ arg = NoCall
    /\ ret = None
    /\ backend \in Backends
    /\ calculators = DefaultCalculators
    /\ reuse = "none"

NextRace ==
    \/ CreateHabit(HabitCreate("boolean", None, None))
    \/ \E h \in RequestIds : UpdateRead(h, Rename)
    \/ UpdateWrite
    \/ \E h \in RequestIds :
          AddSubhabitRead(h, HabitCreate("boolean", None, None))
    \/ AddSubhabitAdd
    \/ AddSubhabitUpdate
    \/ \E h \in RequestIds : RaceDelete(h)
    \/ Respond /\ result.status \notin InFlight

SpecRace == InitRace /\ [][NextRace]_vars

----------------------------------------------------------------------------
(* The service handed habits whose id the caller chose: the next unused
   id, as uuid.uuid4() gives, or one that was used before.  reuse records
   the worst that happened: "stored" when a given id was in the store,
   "absent" when it had been used and was not stored any more. *)

GivenIds == 1..(IF issued < MaxGiven THEN issued + 1 ELSE MaxGiven)

Kind(id) ==
    IF id > issued THEN "none"
    ELSE IF id \in DOMAIN habits THEN "stored" ELSE "absent"

Worse(a, b) ==
    IF "stored" \in {a, b} THEN "stored"
    ELSE IF "absent" \in {a, b} THEN "absent" ELSE "none"

(* HabitService.create_habit(habit) *)
CreateGiven(id, payload) ==
    /\ Idle
    /\ id \in GivenIds
    /\ habits' = repo_add(habits, NewHabit(id, payload, payload.parent_id))
    /\ result' = Outcome("create_habit", id, "ok", None)
    /\ issued' = Max(issued, id)
    /\ reuse' = Worse(reuse, Kind(id))
    /\ UNCHANGED <<logs, today, stack, arg, ret, backend, calculators>>

(* an add_subhabit that appends the parent's id to the parent's list *)
M_AddSubhabitGiven(parent_id, id, payload) ==
    /\ Idle
    /\ id \in GivenIds
    /\ LET found == repo_get(habits, parent_id)
       IN  IF found = None
           THEN /\ result' = Outcome("add_subhabit", parent_id, NotFoundError,
                                     None)
                /\ UNCHANGED <<habits, issued, reuse>>
           ELSE /\ Len(found[1].subhabit_ids) < MaxChildren
                /\ LET subhabit == NewHabit(id, payload, Some(parent_id))
                       parent == [found[1] EXCEPT
                                     !.subhabit_ids = Append(@, parent_id)]
                       appended == [habits EXCEPT ![parent_id] = parent]
                       updated == repo_update(repo_add(appended, subhabit),
                                              parent)
                   IN  /\ habits' = updated.storage
                       /\ result' = Outcome("add_subhabit", parent_id,
                                            updated.status, Some(subhabit.id))
                /\ issued' = Max(issued, id)
                /\ reuse' = Worse(reuse, Kind(id))
    /\ UNCHANGED <<logs, today, stack, arg, ret, backend, calculators>>

(* HabitService.add_subhabit(parent_id, subhabit) *)
AddSubhabitGiven(parent_id, id, payload) ==
    /\ Idle
    /\ id \in GivenIds
    /\ LET found == repo_get(habits, parent_id)
       IN  IF found = None
           THEN /\ result' = Outcome("add_subhabit", parent_id, NotFoundError,
                                     None)
                /\ UNCHANGED <<habits, issued, reuse>>
           ELSE /\ Len(found[1].subhabit_ids) < MaxChildren
                /\ LET subhabit == NewHabit(id, payload, Some(parent_id))
                       parent == [found[1] EXCEPT
                                     !.subhabit_ids = Append(@, subhabit.id)]
                       appended == [habits EXCEPT ![parent_id] = parent]
                       updated == repo_update(repo_add(appended, subhabit),
                                              parent)
                   IN  /\ habits' = updated.storage
                       /\ result' = Outcome("add_subhabit", parent_id,
                                            updated.status, Some(subhabit.id))
                /\ issued' = Max(issued, id)
                /\ reuse' = Worse(reuse, Kind(id))
    /\ UNCHANGED <<logs, today, stack, arg, ret, backend, calculators>>

(* the depth of calls at which the interpreter stops a recursion: deeper
   than delete_habit goes on any tree of MaxGiven habits *)
RecursionLimit == MaxGiven + 1

(* delete_habit calling itself at the recursion limit: RecursionError *)
DeleteTooDeep ==
    /\ Running
    /\ Len(stack) >= RecursionLimit
    /\ Head(stack).i <= Len(Head(stack).habit.subhabit_ids)
    /\ Head(stack).habit.subhabit_ids[Head(stack).i] \in DOMAIN habits
    /\ result' = [result EXCEPT !.status = "RecursionError"]
    /\ stack' = <<>>
    /\ UNCHANGED <<habits, logs, issued, today, arg, ret, backend,
                   calculators, reuse>>

NextGiven ==
    \/ \E id \in 1..MaxGiven :
          CreateGiven(id, HabitCreate("boolean", None, None))
    \/ \E h \in RequestIds, id \in 1..MaxGiven :
          AddSubhabitGiven(h, id, HabitCreate("boolean", None, None))
    \/ \E h \in RequestIds : DeleteHabit(h)
    \/ Len(stack) < RecursionLimit /\ DeleteSubhabit
    \/ DeleteTooDeep
    \/ DeleteSelf
    \/ Respond

SpecGiven == Init /\ [][NextGiven]_vars

----------------------------------------------------------------------------
(* Direct calls of the calculator factory *)

(* the habit types, and one that has no calculator as the class is loaded *)
LookupTypes == HabitType \cup {"duration"}

(* StatisticsCalculatorFactory.get_calculator(habit_type) *)
GetCalculator(habit_type) ==
    /\ Idle
    /\ LET got == get_calculator(calculators, habit_type)
       IN  result' = Outcome("get_calculator", habit_type, got.status,
                             got.value)
    /\ UNCHANGED <<habits, logs, issued, today, stack, arg, ret, backend,
                   calculators, reuse>>

(* StatisticsCalculatorFactory.register_calculator(habit_type, calculator) *)
RegisterCalculator(habit_type, calculator) ==
    /\ Idle
    /\ calculators' = register_calculator(calculators, habit_type, calculator)
    /\ result' = Outcome("register_calculator", habit_type, "ok",
                         Some(calculator))
    /\ UNCHANGED <<habits, logs, issued, today, stack, arg, ret, backend,
                   reuse>>

NextFactory ==
    \/ \E t \in LookupTypes : GetCalculator(t)
    \/ \E t \in LookupTypes, c \in Calculators : RegisterCalculator(t, c)
    \/ Respond

SpecFactory == Init /\ [][NextFactory]_vars

----------------------------------------------------------------------------
(* Direct calls of the habit repository *)

(* HabitRepository.add(habit) *)
StoreAdd(habit) ==
    /\ Idle
    /\ LET added == store_add(habits, habit)
       IN  /\ habits' = added.storage
           /\ result' = Outcome("add", habit.id, added.status, None)
    /\ UNCHANGED <<logs, issued, today, stack, arg, ret, backend,
                   calculators, reuse>>

(* HabitRepository.update(habit) *)
StoreUpdate(habit) ==
    /\ Idle
    /\ LET updated == store_update(habits, habit)
       IN  /\ habits' = updated.storage
           /\ result' = Outcome("update", habit.id, updated.status, None)
    /\ UNCHANGED <<logs, issued, today, stack, arg, ret, backend,
                   calculators, reuse>>

(* HabitRepository.delete(habit_id) *)
StoreDelete(habit_id) ==
    /\ Idle
    /\ habits' = store_delete(habits, habit_id)
    /\ result' = Outcome("delete", habit_id, "ok", None)
    /\ UNCHANGED <<logs, issued, today, stack, arg, ret, backend,
                   calculators, reuse>>

(* the habits handed to the repository: any id, either name, with or
   without a parent_id *)
StoreHabits ==
    {Habit(i, n, None, None, "boolean", None, p) :
        i \in 1..MaxHabits, n \in {"a", "b"}, p \in Opt({UnknownId})}

InitStore ==
    /\ habits = <<>>
    /\ logs = <<>>
    /\ issued = 0
    /\ today = MaxDate
    /\ stack = <<>>
    /\ result = NoCall
    /\ arg = NoCall
    /\ ret = None
    /\ backend \in Backends
    /\ calculators = DefaultCalculators
    /\ reuse = "none"

NextStore ==
    \/ \E habit \in StoreHabits : StoreAdd(habit)
    \/ \E habit \in StoreHabits : StoreUpdate(habit)
    \/ \E habit_id \in 1..MaxHabits : StoreDelete(habit_id)
    \/ Respond

SpecStore == InitStore /\ [][NextStore]_vars

----------------------------------------------------------------------------
(* Direct calls of the statistics engine *)

EngineHabits ==
    {Habit(1, "n", None, None, t, g, None) :
        t \in HabitType, g \in Opt(Goals)}

EngineEntries ==
    {LogEntry(0, 1, d, v) : d \in Dates, v \in Opt(Values)}

RECURSIVE SeqsUpTo(_, _)
SeqsUpTo(S, n) ==
    IF n = 0 THEN {<<>>}
    ELSE LET shorter == SeqsUpTo(S, n - 1)
         IN  shorter \cup {Append(s, x) : s \in shorter, x \in S}

EngineLogs == SeqsUpTo(EngineEntries, MaxLogs)

InitStats ==
    /\ habits = <<>>
    /\ logs = <<>>
    /\ issued = 0
    /\ stack = <<>>
    /\ result = NoCall
    /\ backend = "in_memory"
    /\ calculators = DefaultCalculators
    /\ reuse = "none"
    /\ today \in Dates
    /\ arg \in [op : {"calculate"}, habit : EngineHabits, logs : EngineLogs,
                start : Opt(Dates), end : Opt(Dates)]
    /\ ret = None

Calculate ==
    /\ arg.op = "calculate"
    /\ ret = None
    /\ ret' = Some(calculate(arg.habit, arg.logs, arg.start, arg.end, today))
    /\ UNCHANGED <<habits, logs, issued, today, stack, result, arg, backend,
                   calculators, reuse>>

NextStats == Calculate

SpecStats == InitStats /\ [][NextStats]_vars

InitStreaks ==
    /\ habits = <<>>
    /\ logs = <<>>
    /\ issued = 0
    /\ stack = <<>>
    /\ result = NoCall
    /\ backend = "in_memory"
    /\ calculators = DefaultCalculators
    /\ reuse = "none"
    /\ today \in StreakDays
    /\ arg \in [op : {"streaks"}, completed_dates : SUBSET StreakDays]
    /\ ret = None

CalculateStreaks ==
    /\ arg.op = "streaks"
    /\ ret = None
    /\ ret' = Some(calculate_streaks(arg.completed_dates, today))
    /\ UNCHANGED <<habits, logs, issued, today, stack, result, arg, backend,
                   calculators, reuse>>

NextStreaks == CalculateStreaks

SpecStreaks == InitStreaks /\ [][NextStreaks]_vars

----------------------------------------------------------------------------
(* Properties of the statistics engine *)

Calculated == arg.op = "calculate" /\ ret # None

StreaksDone == arg.op = "streaks" /\ ret # None

(* the entry's date lies in the inclusive window *)
InWindow(d, start, end) ==
    /\ (start # None => start[1] <= d)
    /\ (end # None => d <= end[1])

(* positions of the entries of the call's list that lie in its window *)
WindowIdx ==
    {i \in DOMAIN arg.logs : InWindow(arg.logs[i].date, arg.start, arg.end)}

RECURSIVE SumOver(_, _)
SumOver(f, I) ==
    IF I = {} THEN 0
    ELSE LET i == CHOOSE j \in I : TRUE
         IN  f[i] + SumOver(f, I \ {i})

(* C1: the completion rate lies in [0, 1]; it is total_completions /
   total_days_tracked when total_days_tracked > 0 and 0.0 when it is 0. *)
C1_CompletionRate ==
    Calculated =>
        LET r == ret[1]
            q == r.completion_rate
        IN  /\ q.den > 0
            /\ 0 <= q.num
            /\ q.num <= q.den
            /\ r.total_days_tracked > 0 =>
                   q.num * r.total_days_tracked = r.total_completions * q.den
            /\ r.total_days_tracked = 0 => q.num = 0

C1_Witness ==
    /\ Calculated
    /\ ret[1].total_days_tracked = 2
    /\ ret[1].total_completions = 1
    /\ arg.logs[1].date = arg.logs[2].date

(* C2: current_streak is the number k of consecutive days today, today-1,
   ..., today-(k-1) that are all completed, with today-k not completed; it
   is 0 whenever today is not completed. *)
C2_CurrentStreak ==
    StreaksDone =>
        LET k == ret[1].current
            S == arg.completed_dates
        IN  /\ k >= 0
            /\ \A i \in 0..(k - 1) : today - i \in S
            /\ today - k \notin S
            /\ today \notin S => k = 0

C2_Witness ==
    /\ StreaksDone
    /\ ret[1].current = 2
    /\ Cardinality(arg.completed_dates) = 4

(* the length of the longest run of consecutive days contained in S *)
IsRun(S, d, k) == \A i \in 0..(k - 1) : d + i \in S

LongestRun(S) ==
    CHOOSE k \in 0..Cardinality(S) :
        /\ k > 0 => \E d \in S : IsRun(S, d, k)
        /\ \A d \in S : ~IsRun(S, d, k + 1)

(* C3: longest_streak is the length of the longest run of consecutive
   calendar days in the completed-date set; both streaks are 0 when the
   set is empty. *)
C3_LongestStreak ==
    StreaksDone =>
        /\ ret[1].longest = LongestRun(arg.completed_dates)
        /\ arg.completed_dates = {} =>
               ret[1].longest = 0 /\ ret[1].current = 0

C3_Witness ==
    /\ StreaksDone
    /\ arg.completed_dates = {0, 1, 3}
    /\ ret[1].longest = 2

(* C4: for a boolean habit a date is completed exactly when some in-window
   entry on it has a non-null value >= 1.0, and total_completions is the
   number of such dates. *)
C4_BooleanCompleted ==
    Calculated /\ arg.habit.type = "boolean" =>
        LET expected ==
                {d \in Dates : \E i \in WindowIdx :
                    /\ arg.logs[i].date = d
                    /\ arg.logs[i].value # None
                    /\ arg.logs[i].value[1] >= 2}
        IN  /\ BooleanCompletedDates(
                   filter_logs_by_date(arg.logs, arg.start, arg.end)) = expected
            /\ ret[1].total_completions = Cardinality(expected)

C4_Witness ==
    /\ Calculated
    /\ arg.habit.type = "boolean"
    /\ ret[1].total_completions = 1
    /\ \E i, j \in WindowIdx :
           /\ arg.logs[i].value = Some(1)
           /\ arg.logs[j].value = Some(2)
           /\ arg.logs[i].date # arg.logs[j].date

(* C5: for a numeric habit a date is completed exactly when some in-window
   entry on it has a non-null value v with v >= goal (habit with a goal) or
   v > 0 (habit without a goal). *)
C5_NumericCompleted ==
    Calculated /\ arg.habit.type = "numeric" =>
        LET g == arg.habit.goal
            expected ==
                {d \in Dates : \E i \in WindowIdx :
                    /\ arg.logs[i].date = d
                    /\ arg.logs[i].value # None
                    /\ g # None => arg.logs[i].value[1] >= g[1]
                    /\ g = None => arg.logs[i].value[1] > 0}
        IN  /\ NumericCompletedDates(arg.habit,
                   filter_logs_by_date(arg.logs, arg.start, arg.end)) = expected
            /\ ret[1].total_completions = Cardinality(expected)

C5_Witness ==
    /\ Calculated
    /\ arg.habit.type = "numeric"
    /\ arg.habit.goal = Some(2)
    /\ ret[1].total_completions = 1
    /\ \E i \in WindowIdx : arg.logs[i].value = Some(1)
    /\ \E i \in WindowIdx : arg.logs[i].value = Some(2)

(* C6: total_days_tracked is the number of entries whose date lies in the
   inclusive window, entries on the same date counted separately. *)
C6_TotalDaysTracked ==
    Calculated => ret[1].total_days_tracked = Cardinality(WindowIdx)

C6_Witness ==
    /\ Calculated
    /\ arg.start # None
    /\ arg.end # None
    /\ Len(arg.logs) = 2
    /\ arg.logs[1].date = arg.start[1]
    /\ arg.logs[2].date = arg.end[1]
    /\ arg.logs[1].date = arg.logs[2].date
    /\ ret[1].total_days_tracked = 2

(* C7: for a numeric habit average_value is the mean of the non-null values
   of the in-window entries, completed or not, and null when there is none;
   for a boolean habit it is null. *)
C7_AverageValue ==
    Calculated =>
        LET a == ret[1].average_value
            carrying == {i \in WindowIdx : arg.logs[i].value # None}
            total == SumOver([i \in carrying |-> arg.logs[i].value[1]], carrying)
        IN  IF arg.habit.type = "boolean" \/ carrying = {}
            THEN a = None
            ELSE /\ a # None
                 /\ a[1].den > 0
                 /\ a[1].num * Cardinality(carrying) = total * a[1].den

C7_Witness ==
    /\ Calculated
    /\ arg.habit.type = "numeric"
    /\ arg.habit.goal = Some(2)
    /\ ret[1].total_completions = 1
    /\ ret[1].average_value = Some([num |-> 2, den |-> 2])

----------------------------------------------------------------------------
(* Properties of the habit service *)

(* the completion rule of a habit, stated on an optional value *)
Completes(habit, value) ==
    /\ value # None
    /\ habit.type = "boolean" => value[1] >= 2
    /\ habit.type = "numeric" /\ habit.goal # None => value[1] >= habit.goal[1]
    /\ habit.type = "numeric" /\ habit.goal = None => value[1] > 0

(* the days on which the habit has a completing entry, within the window *)
CompletedIn(habit, start, end) ==
    {logs[i].date : i \in {j \in DOMAIN logs :
        /\ logs[j].habit_id = habit.id
        /\ InWindow(logs[j].date, start, end)
        /\ Completes(habit, logs[j].value)}}

StatsReturned == result.op = "get_statistics" /\ result.status = "ok"

(* C8: when the window ends before today, or the habit has no completing
   entry dated today, get_statistics reports current_streak = 0, and
   longest_streak is the longest run of completed days inside the window. *)
C8_StreakFromToday ==
    StatsReturned =>
        LET habit == habits[result.id]
            stats == result.value[1]
        IN  \/ result.end # None /\ result.end[1] < today
            \/ today \notin CompletedIn(habit, None, None)
            => /\ stats.current_streak = 0
               /\ stats.longest_streak =
                      LongestRun(CompletedIn(habit, result.start, result.end))

C8_Witness ==
    /\ StatsReturned
    /\ result.end # None
    /\ result.end[1] < today
    /\ result.value[1].current_streak = 0
    /\ result.value[1].longest_streak = 2

(* the ids reachable from h through subhabit_ids in a habit store *)
RECURSIVE ReachFrom(_, _, _)
ReachFrom(storage, frontier, seen) ==
    IF frontier \subseteq seen THEN seen
    ELSE LET now == seen \cup frontier
             children == UNION {
                 {storage[i].subhabit_ids[n] :
                     n \in DOMAIN storage[i].subhabit_ids} :
                 i \in frontier \cap DOMAIN storage}
         IN  ReachFrom(storage, children, now)

Subtree(storage, h) == ReachFrom(storage, {h}, {})

DeleteReturned == result.op = "delete_habit" /\ result.status = "ok"

(* C9: after delete_habit(h) returns successfully, h and every habit
   reachable from h through subhabit_ids are absent from the store, and
   the habits outside that subtree are still stored. *)
C9_CascadingDelete ==
    DeleteReturned =>
        LET doomed == Subtree(result.before, result.id)
        IN  /\ \A d \in doomed : repo_get(habits, d) = None
            /\ \A i \in DOMAIN result.before \ doomed :
                   repo_get(habits, i) = Some(result.before[i])

C9_Witness ==
    /\ DeleteReturned
    /\ \E c \in DOMAIN result.before :
          /\ result.before[result.id].subhabit_ids = <<c>>
          /\ Len(result.before[c].subhabit_ids) = 1
    /\ habits = <<>>

NotFoundOps ==
    {"update_habit", "delete_habit", "record_log", "get_logs",
     "get_statistics", "add_subhabit"}

(* C10: update_habit, delete_habit, record_log, get_logs, get_statistics
   and add_subhabit called with an id that is not in the habit store fail
   with the not-found error and leave the habit store and the log store
   unchanged. *)
C10_UnknownIdNotFound ==
    [][Idle /\ result'.op \in NotFoundOps /\ result'.id \notin DOMAIN habits
       => /\ result'.status = "ValueError"
          /\ habits' = habits
          /\ logs' = logs]_vars

C10_Witness ==
    /\ result.op = "record_log"
    /\ result.status = "ValueError"
    /\ result.id \in 1..issued
    /\ habits # <<>>
    /\ logs # <<>>

(* C11: after add_subhabit(p, c) succeeds on an existing parent p, the
   stored child c has parent_id = p, the stored parent's subhabit_ids is
   its previous list with c's id appended at the end (nothing else of the
   parent changes), and every other stored habit is unchanged. *)
C11_AddSubhabit ==
    [][Idle /\ result'.op = "add_subhabit" /\ result'.status = "ok"
       => LET p == result'.id
              c == result'.value[1]
          IN  /\ p \in DOMAIN habits
              /\ c \notin DOMAIN habits
              /\ DOMAIN habits' = DOMAIN habits \cup {c}
              /\ habits'[c].id = c
              /\ habits'[c].parent_id = Some(p)
              /\ habits'[p] = [habits[p] EXCEPT
                                  !.subhabit_ids = Append(@, c)]
              /\ \A i \in DOMAIN habits \ {p} : habits'[i] = habits[i]]_vars

C11_Witness ==
    /\ result.op = "add_subhabit"
    /\ result.status = "ok"
    /\ Len(habits[result.id].subhabit_ids) = 2
    /\ habits[result.id].subhabit_ids[2] = result.value[1]
    /\ habits[result.value[1]].parent_id = Some(result.id)
    /\ Cardinality(DOMAIN habits) = 3

(* C12: update_habit on an existing habit changes exactly those of name,
   description, category and goal that are supplied in the update; the
   omitted ones and id, type, parent_id, subhabit_ids and the creation
   timestamp keep their values, and all other habits and all log entries
   are unchanged. *)
C12_UpdateFrame ==
    [][Idle /\ result'.op = "update_habit" /\ result'.id \in DOMAIN habits
       => LET u == result'.update
              old == habits[result'.id]
              new == habits'[result'.id]
          IN  /\ result'.status = "ok"
              /\ result'.value = Some(new)
              /\ new.name = IF u.name # None THEN u.name[1] ELSE old.name
              /\ new.description =
                     IF u.description # None THEN u.description
                     ELSE old.description
              /\ new.category =
                     IF u.category # None THEN u.category ELSE old.category
              /\ new.goal = IF u.goal # None THEN u.goal ELSE old.goal
              /\ new.id = old.id
              /\ new.type = old.type
              /\ new.parent_id = old.parent_id
              /\ new.subhabit_ids = old.subhabit_ids
              /\ new.created_at = old.created_at
              /\ DOMAIN habits' = DOMAIN habits
              /\ \A i \in DOMAIN habits \ {old.id} : habits'[i] = habits[i]
              /\ logs' = logs]_vars

C12_Witness ==
    /\ result.op = "update_habit"
    /\ result.status = "ok"
    /\ result.update.name = Some("b")
    /\ result.update.description = None
    /\ habits[result.id].name = "b"
    /\ habits[result.id].description = Some("d")
    /\ habits[result.id].subhabit_ids # <<>>
    /\ \E c \in DOMAIN habits : habits[c].parent_id = Some(result.id)
    /\ logs # <<>>

(* C13: in every state reachable through the service operations (create,
   add-subhabit, update, delete, record-log), between operations, for
   every stored habit p and every id c in p.subhabit_ids, c is the id of a
   stored habit whose parent_id equals p's id. *)
C13_SubhabitLinks ==
    ~Running =>
        \A p \in DOMAIN habits :
            \A n \in DOMAIN habits[p].subhabit_ids :
                LET c == habits[p].subhabit_ids[n]
                IN  /\ c \in DOMAIN habits
                    /\ habits[c].parent_id = Some(p)

(* C14: in every state reachable through the API operations (create habit
   with an optional parent id, add-subhabit, update, delete), between
   operations, every stored habit whose parent_id is set references a
   habit that is present in the store. *)
C14_ParentExists ==
    ~Running =>
        \A h \in DOMAIN habits :
            habits[h].parent_id # None =>
                habits[h].parent_id[1] \in DOMAIN habits

(* C15: log entries are deleted as a side effect of deleting their owning
   habit: in every reachable state, between operations, every entry in the
   log store has the habit_id of a habit present in the habit store. *)
C15_LogsOfStoredHabits ==
    ~Running =>
        \A i \in DOMAIN logs : logs[i].habit_id \in DOMAIN habits

(* C16: the habit store's update(habit) with an id that is not stored
   fails with the store's not-found error (KeyError) and leaves the store
   unchanged; delete(id) is idempotent: it never fails, removes exactly
   the habit of that id, leaves the store unchanged when the id is absent,
   and a second delete of the same id changes nothing more. *)
C16_StoreContract ==
    [][Idle =>
        /\ result'.op = "update" /\ result'.id \notin DOMAIN habits
           => /\ result'.status = "KeyError"
              /\ habits' = habits
        /\ result'.op = "delete"
           => /\ result'.status = "ok"
              /\ DOMAIN habits' = DOMAIN habits \ {result'.id}
              /\ \A i \in DOMAIN habits' : habits'[i] = habits[i]
              /\ result'.id \notin DOMAIN habits => habits' = habits
              /\ store_delete(habits', result'.id) = habits']_vars

C16_Witness ==
    /\ result.op = "update"
    /\ result.status = "KeyError"
    /\ result.id \notin DOMAIN habits
    /\ habits # <<>>
    /\ backend = "sqlite"

(* C17: get_logs(h, start, end), which returns list_for_habit(h, start,
   end), returns exactly the stored entries whose habit_id is h and whose
   date lies in the inclusive window, each once and none of another habit,
   ordered by date ascending, whatever the order of recording. *)
C17_LogsOfHabit ==
    result.op = "get_logs" /\ result.status = "ok" =>
        LET r == result.value[1]
            want == {i \in DOMAIN logs :
                        /\ logs[i].habit_id = result.id
                        /\ InWindow(logs[i].date, result.start, result.end)}
        IN  /\ Len(r) = Cardinality(want)
            /\ \A i \in want : \E k \in DOMAIN r : r[k] = logs[i]
            /\ \A k \in DOMAIN r : \E i \in want : r[k] = logs[i]
            /\ \A k \in DOMAIN r : k < Len(r) => r[k].date <= r[k + 1].date

C17_Witness ==
    /\ result.op = "get_logs"
    /\ result.status = "ok"
    /\ Len(logs) = 2
    /\ logs[1].habit_id = result.id
    /\ logs[2].habit_id = result.id
    /\ logs[1].date > logs[2].date
    /\ result.value[1] = <<logs[2], logs[1]>>

(* what get_statistics returns when the call being answered is repeated
   in the current state *)
StatsAgain ==
    get_statistics(habits[result.id], result.start, result.end)

(* C18: get_statistics is a pure read: it changes neither the habit store
   nor the log store, and the same call repeated in the state it leaves,
   with the same today, returns the result the first call returned. *)
C18_StatisticsPureRead ==
    /\ [][Idle /\ result'.op = "get_statistics"
          => habits' = habits /\ logs' = logs /\ today' = today]_vars
    /\ [](StatsReturned => result.value = Some(StatsAgain))

C18_Witness ==
    /\ StatsReturned
    /\ Len(logs) = 2
    /\ logs[1].date > logs[2].date
    /\ result.value[1].total_days_tracked = 2
    /\ result.value[1].total_completions = 1

(* C19: get_calculator(t) returns the calculator currently mapped to t
   (the boolean and the numeric calculator at first; after
   register_calculator(t, c) it returns c and the other mappings are
   unchanged), and when t has no mapping it fails with a configuration
   error that is distinct from the not-found data error. *)
C19_CalculatorLookup ==
    [][Idle =>
        /\ result'.op = "get_calculator"
           => IF result'.id \in DOMAIN calculators
              THEN /\ result'.status = "ok"
                   /\ result'.value = Some(calculators[result'.id])
              ELSE result'.status \notin {"ok", NotFoundError}
        /\ result'.op = "register_calculator"
           => /\ DOMAIN calculators' = DOMAIN calculators \cup {result'.id}
              /\ calculators'[result'.id] = result'.value[1]
              /\ \A t \in DOMAIN calculators \ {result'.id} :
                     calculators'[t] = calculators[t]]_vars

(* C20: when the habit that update_habit, or add_subhabit as the parent,
   has read is removed by a delete of the same id before the operation
   writes it back, the failure is surfaced to the caller as NotFound, the
   error kind of an unknown id. *)
C20_RaceIsNotFound ==
    /\ result.op \in {"update_habit", "add_subhabit"}
    /\ result.value # None
    /\ result.status \notin InFlight
    /\ result.id \notin DOMAIN habits
    => result.status = NotFoundError

(* C21: during delete_habit(h) a habit is removed from the store only
   after every id in its subhabit_ids has been processed recursively: a
   step removes one habit, at that moment all its descendants are already
   removed, and among the children of a habit of the tree being deleted
   those listed before it are removed and those listed after it are not
   removed yet. *)
C21_DeleteOrder ==
    [][Running /\ DOMAIN habits' # DOMAIN habits
       => \E x \in DOMAIN habits :
            /\ DOMAIN habits' = DOMAIN habits \ {x}
            /\ Subtree(result.before, x) \cap DOMAIN habits = {x}
            /\ \A p \in Subtree(result.before, result.id) \cap DOMAIN result.before :
                 LET ids == result.before[p].subhabit_ids
                 IN  \A k \in DOMAIN ids :
                       ids[k] = x =>
                         /\ \A j \in 1..(k - 1) : ids[j] \notin DOMAIN habits
                         /\ \A j \in (k + 1)..Len(ids) :
                               ids[j] \in DOMAIN result.before
                                   => ids[j] \in DOMAIN habits]_vars

C21_Witness ==
    /\ DeleteReturned
    /\ Len(result.before[result.id].subhabit_ids) = 2
    /\ \A n \in 1..2 :
          result.before[result.id].subhabit_ids[n] \in DOMAIN result.before
    /\ habits = <<>>

(* C22: for every habit type, goal, log list, window and value of today
   the result satisfies 0 <= current_streak <= longest_streak <=
   total_completions <= total_days_tracked. *)
C22_StreakOrdering ==
    Calculated =>
        LET r == ret[1]
        IN  /\ 0 <= r.current_streak
            /\ r.current_streak <= r.longest_streak
            /\ r.longest_streak <= r.total_completions
            /\ r.total_completions <= r.total_days_tracked

C22_Witness ==
    /\ Calculated
    /\ arg.habit.type = "numeric"
    /\ arg.start # None
    /\ ret[1].current_streak = 2
    /\ ret[1].longest_streak = 2
    /\ ret[1].total_days_tracked = 2

(* the ids listed by a stored habit *)
Children(storage, h) ==
    {storage[h].subhabit_ids[n] : n \in DOMAIN storage[h].subhabit_ids}

(* some stored habit is reachable from itself through subhabit_ids *)
Cycle(storage) ==
    \E h \in DOMAIN storage : h \in ReachFrom(storage, Children(storage, h), {})

(* no cycle, and no id in two subhabit_ids lists or twice in one *)
Forest(storage) ==
    /\ ~Cycle(storage)
    /\ \A p, q \in DOMAIN storage :
         \A m \in DOMAIN storage[p].subhabit_ids :
           \A n \in DOMAIN storage[q].subhabit_ids :
             storage[p].subhabit_ids[m] = storage[q].subhabit_ids[n]
                 => p = q /\ m = n

(* no habit is being deleted by two nested calls of the running delete *)
NoReentry ==
    \A a, b \in DOMAIN stack : stack[a].habit.id = stack[b].habit.id => a = b

TooDeep == result.op = "delete_habit" /\ result.status = "RecursionError"

(* C23: while every new habit got a fresh id the subhabit_ids links form a
   forest (no habit reachable from itself, no id in two lists or twice in
   one) and a running delete_habit never re-enters a habit, so it
   terminates; a cycle, and a delete_habit that recurses without end on
   it, occur only after add_subhabit or create_habit was given a habit
   whose id was already in the store. *)
C23_ForestUnlessReuse ==
    /\ reuse = "none" => Forest(habits) /\ NoReentry /\ ~TooDeep
    /\ Cycle(habits) \/ ~NoReentry \/ TooDeep => reuse = "stored"

C23_Witness ==
    /\ TooDeep
    /\ Cycle(habits)
    /\ reuse = "stored"

(* C24: delete_habit on a habit that is present in the store succeeds and
   removes it together with its sub-habits that are still stored; in
   particular, after a sub-habit was deleted on its own, deleting its
   former parent does not fail with not-found and leaves neither the
   parent nor a remaining sub-habit in the store. *)
C24_DeletePresentSucceeds ==
    /\ result.op = "delete_habit"
    /\ result.id \in DOMAIN result.before
    /\ ~Running
    => /\ result.status = "ok"
       /\ Subtree(result.before, result.id) \cap DOMAIN habits = {}

(* the orders in which a list can be handed over *)
Orders(s) ==
    LET perms == {f \in [DOMAIN s -> DOMAIN s] :
                     \A i, j \in DOMAIN s : f[i] = f[j] => i = j}
    IN  {[i \in DOMAIN s |-> s[f[i]]] : f \in perms}

(* the result of the engine on a list, with the window and the today of
   the get_statistics call being answered *)
EngineOn(ls) ==
    calculate(habits[result.id], ls, result.start, result.end, today)

(* the stored entries of the habit of the call being answered *)
OwnLogs == ForHabit(logs, result.id)

Unaveraged(stats) == [stats EXCEPT !.average_value = None]

(* C25, as claimed: get_statistics(h, start, end) returns the result of
   the engine applied to the habit's full log list in any order with the
   same window. *)
C25_AnyOrder ==
    StatsReturned =>
        \A ls \in Orders(OwnLogs) : EngineOn(ls) = result.value[1]

(* C25, amended: get_statistics(h, start, end) returns the result of the
   engine applied to the habit's full log list in date order, so filtering
   by the window twice equals filtering once; on the full list in any
   other order the engine returns the same streaks, completions,
   completion rate and days tracked, and the same average_value whenever
   the values of the window come in the same order. *)
C25_OrderUpToAverage ==
    StatsReturned =>
        /\ EngineOn(SortByDate(OwnLogs)) = result.value[1]
        /\ \A ls \in Orders(OwnLogs) :
             /\ Unaveraged(EngineOn(ls)) = Unaveraged(result.value[1])
             /\ NumericValues(filter_logs_by_date(ls, result.start, result.end))
                    = NumericValues(list_for_habit(logs, result.id,
                                                   result.start, result.end))
                => EngineOn(ls) = result.value[1]

C25_Witness ==
    /\ StatsReturned
    /\ Len(logs) = 3
    /\ result.start # None
    /\ result.value[1].total_days_tracked = 3
    /\ logs[1].date > logs[2].date
    /\ EngineOn(logs).average_value # result.value[1].average_value

====
